---- MODULE Spec2Model ----
(***************************************************************************)
(* State-machine model of transformer/train.py: train_model (start-up with *)
(* optional preload, the epoch/batch loop, validation, the final           *)
(* checkpoint), run_validation and greedy_decode.                          *)
(*                                                                         *)
(* Four specifications share the variables:                                   *)
(*   Spec            successive invocations of train_model(config) over    *)
(*                   one model folder (the checkpoint files persist)       *)
(*   SpecValidation  one call of run_validation with its parameters drawn  *)
(*                   from bounded sets                                     *)
(*   SpecDecode      one call of greedy_decode with its parameters drawn   *)
(*                   from bounded sets (FairSpecDecode adds progress)      *)
(*   SpecData        the data side of successive runs: get_ds (the two     *)
(*                   tokenizers, the random split, the loaders), the loss  *)
(*                   function of line 165 and the batch order of every     *)
(*                   epoch                                                 *)
(***************************************************************************)
EXTENDS Integers, Sequences, FiniteSets, TLC

\* ------------------------------------------------------------ bounds
MaxEpochs == 2      \* config['num_epochs'] ranges over 0..MaxEpochs
MaxBatches == 2     \* batches the train dataloader yields per epoch: at most this
MaxCorpus == 9      \* sentence pairs in the corpus: 1..MaxCorpus
MaxVal == 2         \* batches of a validation set handed to run_validation
MaxLen == 3         \* largest max_len handed to run_validation or greedy_decode
MaxSeqLen == 2      \* config['seq_len'] ranges over 1..MaxSeqLen
MaxExamples == 3    \* largest num_examples handed to run_validation
NumSources == 2     \* distinct source sentences
MaxBatchSize == 2   \* largest batch dimension of a tensor handed to the decoder
MaxItems == 3       \* sentence pairs of a corpus handed to get_ds: 1..MaxItems
NumSeeds == 2       \* states of torch's default random generator
MaxRuns == 2        \* runs of the program on one folder
LongRunEpoch == 99  \* last epoch of a long training that left its checkpoint

\* The decoder loop has no bound of its own when max_len < 1; the model stops
\* following it at this length (always beyond every max_len in use).
MaxDecode == MaxLen + 2

\* ------------------------------------------------------------ program constants
DefaultNumExamples == 2   \* run_validation(..., num_examples=2)
\* special_tokens = ["[UNK]", "[SOS]", "[EOS]", "[PAD]"]: the trainer gives the
\* special tokens the ids 0..3 in this order.
special_tokens == <<"[UNK]", "[SOS]", "[EOS]", "[PAD]">>

\* the vocabulary that gives the tokens of seq the ids 0, 1, ... in order
VocabOf(seq) ==
    [t \in {seq[i] : i \in 1..Len(seq)} |->
        (CHOOSE i \in 1..Len(seq) : seq[i] = t) - 1]

\* special tokens of a vocabulary file that was not written by line 31
OtherSpecialTokens == <<"[PAD]", "[UNK]", "[SOS]", "[EOS]">>

\* vocabularies get_or_build_tokenizer may hand over: trained by line 29 or
\* loaded from a file found (line 33)
Tokenizers == {VocabOf(special_tokens), VocabOf(OtherSpecialTokens)}

\* tokenizer.token_to_id(token)
token_to_id(tokenizer, token) == tokenizer[token]

\* first id after the special tokens: an ordinary word of the vocabulary
Word == Len(special_tokens)

Vocab == 0..Word

\* ------------------------------------------------------------ formatting
RECURSIVE Digits(_)
\* decimal digits of n >= 0, most significant first
Digits(n) == IF n < 10 THEN <<n>> ELSE Digits(n \div 10) \o <<n % 10>>

\* f'{epoch:02d}': decimal, zero-padded to a width of at least two
Format02d(n) == IF n < 10 THEN <<0, n>> ELSE Digits(n)

\* config['preload'] = None (or ''): falsy
NoPreload == <<>>

\* get_weights_file_path(config, epoch): a file of the model folder whose name
\* is derived from the label
get_weights_file_path(label) == [folder |-> "model_folder", label |-> label]

\* local variable not yet assigned
Unbound == -1

VARIABLES
    store,          \* model folder: file path -> saved checkpoint
    nbatches,       \* number of batches train_dataloader yields in an epoch,
                    \* as the latest call of get_ds built it
    val_ds,         \* validation dataloader: sequence of batches
    runs,           \* starts of the program so far
    same_batches,   \* every run so far had the same number of batches per epoch
    config,         \* [num_epochs, preload, seq_len]
    pc,             \* position in the code
    error,          \* exception that ended the call, "none" otherwise
    caller,         \* call stack below the running function
    initial_epoch, epoch, global_step,
    model_params,   \* optimizer updates applied to the initial parameters
    opt_state,      \* optimizer state: steps it has taken
    batch_idx,      \* batches taken from batch_iterator in this epoch
    batch_iterator, \* TRUE once train_model has assigned batch_iterator
    model_mode,     \* "train" | "eval"
    model_fn,       \* the model as a function, as far as it has been evaluated:
                    \*   <<source sentence, decoder input>> -> projected scores
    count, val_it, num_examples, max_len,
    source,         \* [src, size]: encoder input of the decoder call
    decoder_input,
    calls,          \* encode/decode/project calls made in the decoder call
    decode_log,     \* greedy_decode calls that returned: [src, max_len, out]
    stats,          \* per run: validations, checkpoint writes, batches, decoder calls
    metrics,        \* writer: the step keys of the 'train_loss' scalars of this run
    last_batch,     \* the last training batch: its operations in order, and
                    \* the model mode its forward pass ran in
    grad_enabled,   \* FALSE inside `with torch.no_grad()`
    ds_raw,         \* the corpus: sequence of sentence pairs
    batch_size,     \* config['batch_size']
    tokenizer_files,\* language -> vocabulary file
    generator,      \* state of torch's default random generator
    tokenizer_src, tokenizer_tgt,   \* vocabularies in use: token -> id
    train_ds_raw, val_ds_raw,       \* the two parts of the split: corpus indices
    ignore_index,   \* label id that loss_fn ignores
    epoch_batches,  \* per epoch of this run: the batches in the order drawn
    tok_log,        \* get_or_build_tokenizer calls so far, over all runs
    runs_log        \* the runs that ended: corpus, split, batches of every epoch

envVars == <<store, nbatches, val_ds, config, same_batches, runs>>
trainVars == <<initial_epoch, epoch, global_step, model_params, opt_state,
               batch_idx, batch_iterator>>
valVars == <<count, val_it, num_examples, max_len>>
decVars == <<source, decoder_input, calls>>
batchVars == <<metrics, last_batch>>
dataVars == <<ds_raw, batch_size, tokenizer_files, generator, tokenizer_src,
              tokenizer_tgt, train_ds_raw, val_ds_raw, ignore_index,
              epoch_batches, tok_log, runs_log>>
vars == <<store, nbatches, val_ds, same_batches, runs, config, pc, error, caller, initial_epoch,
          epoch, global_step, model_params, opt_state, batch_idx,
          batch_iterator, model_mode, model_fn, count, val_it, num_examples,
          max_len, source, decoder_input, calls, decode_log, stats, metrics,
          last_batch, grad_enabled, ds_raw, batch_size, tokenizer_files,
          generator, tokenizer_src, tokenizer_tgt, train_ds_raw, val_ds_raw,
          ignore_index, epoch_batches, tok_log, runs_log>>

\* ------------------------------------------------------------ value sets
Sources == 1..NumSources
Labels == {Format02d(e) : e \in 0..MaxEpochs}
LongRunLabel == Format02d(LongRunEpoch)
\* the continuation of the long training by one more epoch
LongRunConfigs ==
    [num_epochs : {LongRunEpoch + 2},
     preload : {LongRunLabel},
     seq_len : 1..MaxSeqLen]
\* short trainings, and the continuation of the long one
Configs ==
    [num_epochs : 0..MaxEpochs,
     preload : Labels \cup {NoPreload},
     seq_len : 1..MaxSeqLen]
    \cup LongRunConfigs

\* val_dataloader = DataLoader(val_ds, batch_size=1, ...)
ValBatchSize == 1

Min(a, b) == IF a <= b THEN a ELSE b

SeqsUpTo(S, n) == UNION {[1..k -> S] : k \in 0..n}

\* line 46: train_ds_size = int(len(ds_raw) * .9)
train_ds_size(n) == (n * 9) \div 10

\* line 47: val_ds_size = len(ds_raw) - train_ds_size
val_ds_size(n) == n - train_ds_size(n)

\* line 64: batches a DataLoader yields over `size` items
NumBatches(size, per_batch) == (size + per_batch - 1) \div per_batch

\* score vector with the tokens of S on top
Scores(S) == [t \in Vocab |-> IF t \in S THEN 1 ELSE 0]

\* projected scores the model may produce for the last position
Probs ==
    {Scores({token_to_id(tokenizer_tgt, "[EOS]")}), Scores({Word}),
     Scores({token_to_id(tokenizer_tgt, "[EOS]"), Word}),
     Scores({token_to_id(tokenizer_tgt, "[SOS]")})}

\* masks: size of the causal mask of every decode call, in order;
\* stop: the break that left the loop ("length": line 85, "eos": line 100)
NoCalls == [encode |-> 0, decode |-> 0, project |-> 0, masks |-> <<>>,
            stop |-> "none"]
NoStats == [val_runs |-> 0, ckpt_writes |-> 0, batches |-> 0, decodes |-> 0]
NoSource == [src |-> 0, size |-> 0]
EmptyFn == [k \in {} |-> 0]
NoBatch == [ops |-> <<>>, fwd_mode |-> "none"]

\* a vocabulary file that does not exist
NoFile == [exists |-> FALSE, vocab |-> {}]

\* the data side as train_model, run_validation and greedy_decode see it:
\* the target tokenizer that get_ds handed over, the rest not in play
IdleData ==
    /\ ds_raw = <<>>
    /\ batch_size = 1
    /\ tokenizer_files = EmptyFn
    /\ generator = 0
    /\ tokenizer_src = EmptyFn
    /\ tokenizer_tgt \in Tokenizers
    /\ train_ds_raw = <<>>
    /\ val_ds_raw = <<>>
    /\ ignore_index = Unbound
    /\ epoch_batches = <<>>
    /\ tok_log = <<>>
    /\ runs_log = <<>>

\* ------------------------------------------------------------ train_model
\* locals of a call that has not started
FreshLocals ==
    /\ error = "none"
    /\ caller = <<>>
    /\ initial_epoch = 0
    /\ epoch = Unbound
    /\ global_step = 0
    /\ model_params = 0
    /\ opt_state = 0
    /\ batch_idx = 0
    /\ batch_iterator = FALSE
    /\ model_fn = EmptyFn
    /\ count = 0
    /\ val_it = 0
    /\ decoder_input = <<>>
    /\ calls = NoCalls
    /\ decode_log = <<>>
    /\ stats = NoStats
    /\ metrics = <<>>
    /\ last_batch = NoBatch
    /\ grad_enabled = TRUE

\* lines 64-65: DataLoader(..., shuffle=True) builds a RandomSampler; on a
\* dataset without items a sampler that checks its number of samples raises
\* ValueError, one that does not gives a loader without batches. The program
\* pins no torch release, so both are outcomes of get_ds.
SamplerRefuses(size) == size <= 0

\* lines 37-67: what get_ds may come to for a corpus of 1..MaxCorpus pairs and
\* a config['batch_size']: the number of training batches of an epoch and the
\* validation examples in the order the shuffling loader yields them; on a
\* part of the split that has no item, also the ValueError of a sampler that
\* refuses it
Loaders ==
    UNION {
        (IF SamplerRefuses(train_ds_size(pair[1]))
               \/ SamplerRefuses(val_ds_size(pair[1]))
         THEN {[error |-> "ValueError", nbatches |-> Unbound, val_ds |-> <<>>]}
         ELSE {})
        \cup {[error |-> "none",
               nbatches |-> NumBatches(train_ds_size(pair[1]), pair[2]),
               val_ds |-> v] :
                 v \in [1..val_ds_size(pair[1]) ->
                           [src : Sources, size : {ValBatchSize}]]} :
        pair \in {q \in (1..MaxCorpus) \X (1..MaxCorpus) :
                     NumBatches(train_ds_size(q[1]), q[2]) <= MaxBatches}}

\* saving the epoch to run next instead of the epoch that was run
CheckpointNextEpoch(e, params, opt, step) ==
    [epoch |-> e + 1, model_state_dict |-> params,
     optimizer_state_dict |-> opt, global_step |-> step]

\* saving a step counter that was never advanced
CheckpointNoStep(e, params, opt, step) ==
    [epoch |-> e, model_state_dict |-> params,
     optimizer_state_dict |-> opt, global_step |-> 0]

\* lines 202-207: the saved dictionary
Checkpoint(e, params, opt, step) ==
    [epoch |-> e, model_state_dict |-> params,
     optimizer_state_dict |-> opt, global_step |-> step]

\* the model folder after a training of LongRunEpoch + 1 epochs of
\* per_epoch batches each: its final checkpoint (lines 201-207)
LongRunStore(per_epoch) ==
    LET steps == (LongRunEpoch + 1) * per_epoch
    IN  [f \in {get_weights_file_path(LongRunLabel)} |->
            Checkpoint(LongRunEpoch, steps, steps, steps)]

\* the program starts on an empty model folder, or it is started to continue
\* the long training, the first run on the folder, which left its checkpoint
Init ==
    /\ IdleData
    /\ \/ /\ store = EmptyFn
          /\ nbatches = Unbound
          /\ runs = 1
          /\ config \in Configs
       \/ \E per_epoch \in 1..MaxBatches :
             /\ store = LongRunStore(per_epoch)
             /\ nbatches = per_epoch
             /\ runs = 2
             /\ config \in LongRunConfigs
    /\ val_ds = <<>>
    /\ same_batches = TRUE
    /\ pc = "train_model"
    /\ model_mode = "train"
    /\ num_examples = 0
    /\ max_len = 0
    /\ source = NoSource
    /\ FreshLocals

\* resuming at the stored epoch itself
StartEpochSame(state) == state.epoch

\* line 161: initial_epoch = state['epoch'] + 1
StartEpoch(state) == state.epoch + 1

\* preloading only when the checkpoint file is there
PreloadingIfPresent ==
    /\ config.preload # NoPreload
    /\ get_weights_file_path(config.preload) \in DOMAIN store

\* line 157: if config['preload']
Preloading == config.preload # NoPreload

\* lines 146-148: get_ds reads the corpus, splits it and builds the loaders,
\* or raises
GetDs ==
    /\ pc = "train_model"
    /\ \E loaders \in Loaders :
         IF loaders.error # "none"
         THEN /\ error' = loaders.error
              /\ pc' = "error"
              /\ UNCHANGED <<nbatches, val_ds, same_batches>>
         ELSE /\ nbatches' = loaders.nbatches
              /\ val_ds' = loaders.val_ds
              /\ same_batches' =
                    (same_batches /\ (nbatches = Unbound \/ nbatches' = nbatches))
              /\ pc' = "train_start"
              /\ UNCHANGED error
    /\ UNCHANGED <<store, config, runs, caller, trainVars, model_mode,
                   model_fn, valVars, decVars, decode_log, stats, batchVars,
                   grad_enabled, dataVars>>

\* lines 155-165: counters, optional preload
Startup ==
    /\ UNCHANGED dataVars
    /\ pc = "train_start"
    /\ IF ~Preloading
       THEN /\ initial_epoch' = 0
            /\ global_step' = 0
            /\ pc' = "epoch_loop"
            /\ UNCHANGED <<opt_state, error>>
       ELSE LET model_filename == get_weights_file_path(config.preload) IN
            IF model_filename \in DOMAIN store
            THEN LET state == store[model_filename] IN
                 /\ initial_epoch' = StartEpoch(state)
                 /\ opt_state' = state.optimizer_state_dict
                 /\ global_step' = state.global_step
                 /\ pc' = "epoch_loop"
                 /\ UNCHANGED error
            ELSE \* torch.load: no such file
                 /\ error' = "FileNotFoundError"
                 /\ pc' = "error"
                 /\ UNCHANGED <<initial_epoch, opt_state, global_step>>
    /\ UNCHANGED <<batchVars, grad_enabled>>
    /\ UNCHANGED <<envVars, caller, epoch, model_params, batch_idx,
                   batch_iterator, model_mode, model_fn, valVars, decVars,
                   decode_log, stats>>

\* next value of `for epoch in range(initial_epoch, config['num_epochs'])`
NextOfRange == IF epoch = Unbound THEN initial_epoch ELSE epoch + 1

\* lines 167-169: the epoch loop takes its next value
NextEpoch ==
    /\ UNCHANGED dataVars
    /\ pc = "epoch_loop"
    /\ NextOfRange < config.num_epochs
    /\ epoch' = NextOfRange
    /\ batch_iterator' = TRUE
    /\ batch_idx' = 0
    /\ pc' = "batch_loop"
    /\ UNCHANGED <<batchVars, grad_enabled>>
    /\ UNCHANGED <<envVars, error, caller, initial_epoch, global_step,
                   model_params, opt_state, model_mode, model_fn, valVars,
                   decVars, decode_log, stats>>

\* what the body of the batch loop works on
BatchState ==
    [mode |-> model_mode, params |-> model_params, opt |-> opt_state,
     step |-> global_step, metrics |-> metrics, grads |-> FALSE,
     fwd_mode |-> "none", ops |-> <<>>]

Did(b, op) == [b EXCEPT !.ops = Append(@, op)]

\* line 171: model.train()
ModelTrain(b) == Did([b EXCEPT !.mode = "train"], "train")

\* lines 178-180: encode, decode, project
Forward(b) == Did([b EXCEPT !.fwd_mode = b.mode], "forward")

\* line 185: loss = loss_fn(...)
Loss(b) == Did(b, "loss")

\* lines 190-191: writer.add_scalar('train_loss', loss.item(), global_step)
AddScalar(b) == Did([b EXCEPT !.metrics = Append(@, b.step)], "add_scalar")

\* line 195: loss.backward()
Backward(b) == Did([b EXCEPT !.grads = TRUE], "backward")

\* line 196: optimizer.step()
OptimizerStep(b) ==
    Did([b EXCEPT !.params = @ + 1, !.opt = @ + 1], "optimizer_step")

\* line 197: optimizer.zero_grad()
ZeroGrad(b) == Did([b EXCEPT !.grads = FALSE], "zero_grad")

\* a step counter that is never advanced
StepAfterBatchSame(step) == step

\* line 198: global_step += 1
StepAfterBatch(step) == step + 1

IncrementStep(b) == Did([b EXCEPT !.step = StepAfterBatch(@)], "global_step")

\* lines 171-198 in the order of the code
BatchBody(b) ==
    IncrementStep(ZeroGrad(OptimizerStep(Backward(
        AddScalar(Loss(Forward(ModelTrain(b))))))))

\* taking a first batch before looking whether there is one
BatchAvailableAtLeastOne == batch_idx < nbatches \/ batch_idx = 0

\* line 170: for batch in batch_iterator
BatchAvailable == batch_idx < nbatches

\* lines 170-198: one batch
ProcessBatch ==
    /\ UNCHANGED dataVars
    /\ pc = "batch_loop"
    /\ BatchAvailable
    /\ batch_idx' = batch_idx + 1
    /\ LET b == BatchBody(BatchState) IN
       /\ model_mode' = b.mode
       /\ model_params' = b.params
       /\ opt_state' = b.opt
       /\ global_step' = b.step
       /\ metrics' = b.metrics
       /\ last_batch' = [ops |-> b.ops, fwd_mode |-> b.fwd_mode]
    /\ model_fn' = EmptyFn
    /\ stats' = [stats EXCEPT !.batches = @ + 1]
    /\ UNCHANGED grad_enabled
    /\ UNCHANGED <<envVars, pc, error, caller, initial_epoch, epoch,
                   batch_iterator, valVars, decVars, decode_log>>

\* line 170: batch_iterator is exhausted
EndEpoch ==
    /\ UNCHANGED dataVars
    /\ pc = "batch_loop"
    /\ ~BatchAvailable
    /\ pc' = "epoch_loop"
    /\ UNCHANGED <<batchVars, grad_enabled>>
    /\ UNCHANGED <<envVars, error, caller, trainVars, model_mode, model_fn,
                   valVars, decVars, decode_log, stats>>

\* line 200: the range is exhausted; call run_validation
CallValidation ==
    /\ UNCHANGED dataVars
    /\ pc = "epoch_loop"
    /\ ~(NextOfRange < config.num_epochs)
    /\ caller' = <<"train_model">>
    /\ max_len' = config.seq_len
    /\ num_examples' = DefaultNumExamples
    /\ pc' = "val_entry"
    /\ UNCHANGED <<batchVars, grad_enabled>>
    /\ UNCHANGED <<envVars, error, trainVars, model_mode, model_fn, count,
                   val_it, decVars, decode_log, stats>>

\* ------------------------------------------------------------ run_validation
\* return from run_validation: to line 201 of train_model, or to the caller
\* that the specification started it from
ValidationReturns ==
    /\ UNCHANGED dataVars
    /\ pc' = IF caller = <<>> THEN "returned" ELSE "save"
    /\ caller' = <<>>
    /\ grad_enabled' = TRUE

\* evaluating without leaving training mode
EvalModeForgotten == model_mode

\* line 104: model.eval()
EvalMode == "eval"

\* lines 104-112
ValEntry ==
    /\ UNCHANGED dataVars
    /\ pc = "val_entry"
    /\ model_mode' = EvalMode
    /\ grad_enabled' = FALSE
    /\ count' = 0
    /\ val_it' = 0
    /\ decode_log' = <<>>
    /\ stats' = [stats EXCEPT !.val_runs = @ + 1]
    /\ pc' = "val_loop"
    /\ UNCHANGED batchVars
    /\ UNCHANGED <<envVars, error, caller, trainVars, model_fn, num_examples,
                   max_len, decVars>>

\* lines 114-121: next batch, the batch-size assertion, the decoder call
ValNextBatch ==
    /\ UNCHANGED dataVars
    /\ pc = "val_loop"
    /\ val_it < Len(val_ds)
    /\ LET batch == val_ds[val_it + 1] IN
       /\ val_it' = val_it + 1
       /\ count' = count + 1
       /\ IF batch.size = 1
          THEN /\ source' = batch
               /\ caller' = <<"run_validation">> \o caller
               /\ pc' = "decode_entry"
               /\ UNCHANGED <<error, grad_enabled>>
          ELSE /\ error' = "AssertionError"
               /\ pc' = "error"
               /\ grad_enabled' = TRUE
               /\ UNCHANGED <<source, caller>>
    /\ UNCHANGED batchVars
    /\ UNCHANGED <<envVars, trainVars, model_mode, model_fn, num_examples,
                   max_len, decoder_input, calls, decode_log, stats>>

\* line 114: the validation dataloader is exhausted
ValExhausted ==
    /\ UNCHANGED dataVars
    /\ pc = "val_loop"
    /\ val_it = Len(val_ds)
    /\ ValidationReturns
    /\ UNCHANGED batchVars
    /\ UNCHANGED <<envVars, error, trainVars, model_mode, model_fn, valVars,
                   decVars, decode_log, stats>>

\* line 136: if count == num_examples
CapReached(c, n) == c = n

\* print_msg of train_model is `lambda msg: batch_iterator.write(msg)`:
\* it needs batch_iterator, which only the epoch loop assigns
PrintMsgFails == caller = <<"train_model">> /\ ~batch_iterator

\* lines 123-137: record and print the triple, stop at the cap
ValRecord ==
    /\ UNCHANGED dataVars
    /\ pc = "val_record"
    /\ IF PrintMsgFails
       THEN /\ error' = "NameError"
            /\ pc' = "error"
            /\ grad_enabled' = TRUE
            /\ UNCHANGED caller
       ELSE /\ UNCHANGED error
            /\ IF CapReached(count, num_examples)
               THEN ValidationReturns
               ELSE pc' = "val_loop" /\ UNCHANGED <<caller, grad_enabled>>
    /\ UNCHANGED batchVars
    /\ UNCHANGED <<envVars, trainVars, model_mode, model_fn, valVars,
                   decVars, decode_log, stats>>

\* ------------------------------------------------------------ greedy_decode
\* lines 75-76: the special ids of the target tokenizer handed in
sos_idx == token_to_id(tokenizer_tgt, "[SOS]")
eos_idx == token_to_id(tokenizer_tgt, "[EOS]")

\* stopping one token late
LengthBoundOffByOne(len, m) == len = m + 1

\* line 84: if decoder_input.size(1) == max_len
LengthBound(len, m) == len = m

\* a decoder that never stops on EOS
StopsNever(next_word) == FALSE

\* line 99: if next_word == eos_idx
StopsOn(next_word) == next_word = eos_idx

\* a mask of the full sequence length at every step
MaskSizeMaxLen(dec) == max_len

\* line 88: causal_mask(decoder_input.size(1))
MaskSize(dec) == Len(dec)

\* sampling among the top-scored ids instead of taking the arg-max; the state
\* of the random generator is stood in for by the number of decoder calls
SampleTop(prob) ==
    LET top == {i \in Vocab : \A j \in Vocab : prob[j] <= prob[i]}
    IN  IF stats.decodes % 2 = 1
        THEN CHOOSE i \in top : \A j \in top : i <= j
        ELSE CHOOSE i \in top : \A j \in top : j <= i

\* line 96: _, next_word = torch.max(prob, dim=1): the first index that
\* holds the largest score
ArgMax(prob) ==
    CHOOSE i \in Vocab :
        /\ \A j \in Vocab : prob[j] <= prob[i]
        /\ \A j \in Vocab : j < i => prob[j] < prob[i]

\* lines 75-82: special ids, encoder output, decoder input = [SOS]
DecodeEntry ==
    /\ UNCHANGED dataVars
    /\ pc = "decode_entry"
    /\ calls' = [NoCalls EXCEPT !.encode = 1]
    /\ decoder_input' = <<sos_idx>>
    /\ stats' = [stats EXCEPT !.decodes = @ + 1]
    /\ pc' = "decode_loop"
    /\ UNCHANGED <<batchVars, grad_enabled>>
    /\ UNCHANGED <<envVars, error, caller, trainVars, model_mode, model_fn,
                   valVars, source, decode_log>>

\* lines 84-85: length-bound termination
DecodeBreak ==
    /\ UNCHANGED dataVars
    /\ pc = "decode_loop"
    /\ LengthBound(Len(decoder_input), max_len)
    /\ calls' = [calls EXCEPT !.stop = "length"]
    /\ pc' = "decode_return"
    /\ UNCHANGED <<batchVars, grad_enabled>>
    /\ UNCHANGED <<envVars, error, caller, trainVars, model_mode, model_fn,
                   valVars, source, decoder_input, decode_log, stats>>

\* lines 88-100: one decoder step on a single-example source
DecodeStep ==
    /\ UNCHANGED dataVars
    /\ pc = "decode_loop"
    /\ ~LengthBound(Len(decoder_input), max_len)
    /\ Len(decoder_input) < MaxDecode
    /\ source.size = 1
    /\ \E prob \in Probs :
         LET key == <<source.src, decoder_input>>
             next_word == ArgMax(prob)
         IN  /\ key \in DOMAIN model_fn => prob = model_fn[key]
             /\ model_fn' = [k \in DOMAIN model_fn \cup {key} |->
                                IF k = key THEN prob ELSE model_fn[k]]
             /\ calls' = [calls EXCEPT
                    !.decode = @ + 1, !.project = @ + 1,
                    !.masks = Append(@, MaskSize(decoder_input)),
                    !.stop = IF StopsOn(next_word) THEN "eos" ELSE "none"]
             /\ decoder_input' = Append(decoder_input, next_word)
             /\ pc' = IF StopsOn(next_word) THEN "decode_return"
                                             ELSE "decode_loop"
    /\ UNCHANGED <<batchVars, grad_enabled>>
    /\ UNCHANGED <<envVars, error, caller, trainVars, model_mode, valVars,
                   source, decode_log, stats>>

\* lines 88-97 on a source of several examples: next_word holds one id per
\* example and next_word.item() raises (ValueError or RuntimeError, by the
\* version of torch); the model's decode may itself
\* reject the mismatched batch dimensions before that
DecodeBatched ==
    /\ UNCHANGED dataVars
    /\ pc = "decode_loop"
    /\ ~LengthBound(Len(decoder_input), max_len)
    /\ source.size # 1
    /\ \E raised_in \in {"decode", "item"},
          item_error \in {"ValueError", "RuntimeError"} :
         /\ calls' = IF raised_in = "decode"
                     THEN [calls EXCEPT
                             !.decode = @ + 1,
                             !.masks = Append(@, MaskSize(decoder_input))]
                     ELSE [calls EXCEPT
                             !.decode = @ + 1, !.project = @ + 1,
                             !.masks = Append(@, MaskSize(decoder_input))]
         /\ error' = IF raised_in = "decode" THEN "RuntimeError"
                                             ELSE item_error
    /\ pc' = "error"
    /\ UNCHANGED <<batchVars, grad_enabled>>
    /\ UNCHANGED <<envVars, caller, trainVars, model_mode, model_fn, valVars,
                   source, decoder_input, decode_log, stats>>

\* line 101: return decoder_input.squeeze(0)
DecodeReturn ==
    /\ UNCHANGED dataVars
    /\ pc = "decode_return"
    /\ decode_log' = Append(decode_log,
           [src |-> source.src, max_len |-> max_len, out |-> decoder_input])
    /\ IF caller # <<>> /\ Head(caller) = "run_validation"
       THEN pc' = "val_record" /\ caller' = Tail(caller)
       ELSE pc' = "returned" /\ UNCHANGED caller
    /\ UNCHANGED <<batchVars, grad_enabled>>
    /\ UNCHANGED <<envVars, error, trainVars, model_mode, model_fn, valVars,
                   decVars, stats>>

\* ------------------------------------------------------------ checkpoint
\* lines 201-207: the final checkpoint
SaveCheckpoint ==
    /\ UNCHANGED dataVars
    /\ pc = "save"
    /\ IF epoch = Unbound
       THEN /\ error' = "UnboundLocalError"
            /\ pc' = "error"
            /\ UNCHANGED <<store, stats>>
       ELSE LET model_filename == get_weights_file_path(Format02d(epoch))
                state == Checkpoint(epoch, model_params, opt_state, global_step)
            IN /\ store' = [f \in DOMAIN store \cup {model_filename} |->
                              IF f = model_filename THEN state ELSE store[f]]
               /\ stats' = [stats EXCEPT !.ckpt_writes = @ + 1]
               /\ pc' = "done"
               /\ UNCHANGED error
    /\ UNCHANGED <<batchVars, grad_enabled>>
    /\ UNCHANGED <<nbatches, val_ds, same_batches, runs, config, caller, trainVars,
                   model_mode, model_fn, valVars, decVars, decode_log>>

\* the program is started again on the same model folder and the same
\* tokenizer files
NewRun ==
    /\ UNCHANGED dataVars
    /\ pc \in {"done", "error"}
    /\ runs < MaxRuns
    /\ runs' = runs + 1
    /\ config' \in Configs
    /\ pc' = "train_model"
    /\ error' = "none"
    /\ caller' = <<>>
    /\ initial_epoch' = 0
    /\ epoch' = Unbound
    /\ global_step' = 0
    /\ model_params' = 0
    /\ opt_state' = 0
    /\ batch_idx' = 0
    /\ batch_iterator' = FALSE
    /\ model_mode' = "train"
    /\ model_fn' = EmptyFn
    /\ count' = 0
    /\ val_it' = 0
    /\ num_examples' = 0
    /\ max_len' = 0
    /\ source' = NoSource
    /\ decoder_input' = <<>>
    /\ calls' = NoCalls
    /\ decode_log' = <<>>
    /\ stats' = NoStats
    /\ metrics' = <<>>
    /\ last_batch' = NoBatch
    /\ grad_enabled' = TRUE
    /\ val_ds' = <<>>
    /\ UNCHANGED <<store, nbatches, same_batches>>

\* ------------------------------------------------------------ specifications
Next ==
    \/ GetDs \/ Startup \/ NextEpoch \/ ProcessBatch \/ EndEpoch \/ CallValidation
    \/ ValEntry \/ ValNextBatch \/ ValExhausted \/ ValRecord
    \/ DecodeEntry \/ DecodeBreak \/ DecodeStep \/ DecodeReturn
    \/ SaveCheckpoint \/ NewRun

Spec == Init /\ [][Next]_vars

\* run_validation called on its own. The assertion of line 119 keeps a
\* source of several examples away from the decoder, so DecodeBatched has no
\* place here.
IdleConfig == [num_epochs |-> 0, preload |-> NoPreload, seq_len |-> 1]

InitValidation ==
    /\ same_batches = TRUE
    /\ runs = 1
    /\ IdleData
    /\ store = EmptyFn
    /\ nbatches = 0
    /\ val_ds \in SeqsUpTo([src : Sources, size : 1..MaxBatchSize], MaxVal)
    /\ config = IdleConfig
    /\ pc = "val_entry"
    /\ model_mode \in {"train", "eval"}
    /\ num_examples \in 0..MaxExamples
    /\ max_len \in 1..MaxLen
    /\ source = NoSource
    /\ FreshLocals

NextValidation ==
    \/ ValEntry \/ ValNextBatch \/ ValExhausted \/ ValRecord
    \/ DecodeEntry \/ DecodeBreak \/ DecodeStep \/ DecodeReturn

SpecValidation == InitValidation /\ [][NextValidation]_vars

\* greedy_decode called on its own
InitDecode ==
    /\ same_batches = TRUE
    /\ runs = 1
    /\ IdleData
    /\ store = EmptyFn
    /\ nbatches = 0
    /\ val_ds = <<>>
    /\ config = IdleConfig
    /\ pc = "decode_entry"
    /\ model_mode \in {"train", "eval"}
    /\ num_examples = 0
    /\ max_len \in -1..MaxLen
    /\ FreshLocals
    /\ source \in [src : Sources, size : 1..MaxBatchSize]

NextDecode ==
    \/ DecodeEntry \/ DecodeBreak \/ DecodeStep \/ DecodeBatched
    \/ DecodeReturn

SpecDecode == InitDecode /\ [][NextDecode]_vars

FairSpecDecode == SpecDecode /\ WF_vars(NextDecode)

\* ------------------------------------------------------------ get_ds
\* config['lang_src'], config['lang_tgt']
lang_src == "en"
lang_tgt == "it"

\* the words corpus sentences are made of, in lexicographic order
CorpusWords == <<"a", "b">>
WordSet == {CorpusWords[i] : i \in 1..Len(CorpusWords)}
WordIndex(w) == CHOOSE i \in 1..Len(CorpusWords) : CorpusWords[i] = w

\* item['translation']: a sentence per language; a sentence is one word, and
\* every word of one language has one translation in the other
Items ==
    {[en |-> CorpusWords[i], it |-> CorpusWords[Len(CorpusWords) + 1 - i]] :
        i \in 1..Len(CorpusWords)}

\* lines 19-21: the sentences of one language, in corpus order
get_all_sentences(ds, lang) == [i \in 1..Len(ds) |-> ds[i][lang]]

\* line 29: WordLevelTrainer(..., min_frequency=2)
min_frequency == 2

\* lines 27-30: the special tokens take the first ids in the order given; the
\* words seen at least min_frequency times follow, the most frequent first,
\* equally frequent ones in lexicographic order
train_from_iterator(sentences) ==
    LET WordCount(w) ==
            Cardinality({i \in 1..Len(sentences) : sentences[i] = w})
        kept == {w \in WordSet : WordCount(w) >= min_frequency}
        Before(u, w) ==
            \/ WordCount(u) > WordCount(w)
            \/ WordCount(u) = WordCount(w) /\ WordIndex(u) < WordIndex(w)
        specials == {special_tokens[i] : i \in 1..Len(special_tokens)}
    IN  [t \in specials \cup kept |->
            IF t \in specials
            THEN VocabOf(special_tokens)[t]
            ELSE Len(special_tokens)
                   + Cardinality({u \in kept : Before(u, t)})]

\* line 31: tokenizer.save writes the token/id table
save(tokenizer) ==
    [exists |-> TRUE,
     vocab |-> {<<t, tokenizer[t]>> : t \in DOMAIN tokenizer}]

\* line 33: Tokenizer.from_file rebuilds the vocabulary from the table
from_file(file) ==
    [t \in {p[1] : p \in file.vocab} |->
        (CHOOSE p \in file.vocab : p[1] = t)[2]]

\* a path that is never found
PathExistsNever(lang) == FALSE

\* line 26: Path.exists(tokenizer_path), one path per language
PathExists(lang) == tokenizer_files[lang].exists

\* lines 23-35: the vocabulary returned, the file left behind, and whether
\* the vocabulary was trained from the corpus
get_or_build_tokenizer(ds, lang) ==
    IF ~PathExists(lang)
    THEN LET tokenizer == train_from_iterator(get_all_sentences(ds, lang))
         IN  [tokenizer |-> tokenizer, file |-> save(tokenizer),
              trained |-> TRUE]
    ELSE [tokenizer |-> from_file(tokenizer_files[lang]),
          file |-> tokenizer_files[lang], trained |-> FALSE]

\* a call of get_or_build_tokenizer as the log keeps it
TokCall(lang, r) ==
    [lang |-> lang, found |-> tokenizer_files[lang].exists,
     trained |-> r.trained,
     saved |-> r.file.exists /\ r.file # tokenizer_files[lang],
     vocab |-> r.tokenizer]

\* vocabulary files the program may find when it starts
FilesAtStart ==
    {NoFile, save(VocabOf(special_tokens)), save(VocabOf(OtherSpecialTokens))}

Seeds == 0..(NumSeeds - 1)

\* drawing from a generator moves it to its next state
Advance(g) == (g + 1) % NumSeeds

\* torch.randperm(n): a permutation of 1..n that the generator state fixes
randperm(n, g) == [i \in 1..n |-> ((i - 1 + g) % n) + 1]

\* line 48: random_split(ds_raw, [train_ds_size, val_ds_size]) permutes the
\* indices with the default generator and cuts the permutation in two
random_split(n, g) ==
    LET indices == randperm(n, g)
    IN  [train |-> SubSeq(indices, 1, train_ds_size(n)),
         val |-> SubSeq(indices, train_ds_size(n) + 1, n)]

\* line 64: DataLoader(train_ds, batch_size, shuffle=True): one pass draws a
\* permutation of the training items from the default generator and yields
\* it in chunks of batch_size
Batches(ds, per_batch, g) ==
    LET order == randperm(Len(ds), g)
        items == [i \in 1..Len(ds) |-> ds[order[i]]]
    IN  [k \in 1..NumBatches(Len(ds), per_batch) |->
            SubSeq(items, (k - 1) * per_batch + 1,
                   Min(k * per_batch, Len(ds)))]

\* line 42: tokenizer_src = get_or_build_tokenizer(config, ds_raw, lang_src)
TokenizerSrc ==
    /\ pc = "get_ds"
    /\ LET r == get_or_build_tokenizer(ds_raw, lang_src)
       IN  /\ tokenizer_src' = r.tokenizer
           /\ tokenizer_files' = [tokenizer_files EXCEPT ![lang_src] = r.file]
           /\ tok_log' = Append(tok_log, TokCall(lang_src, r))
    /\ pc' = "tokenizer_tgt"
    /\ UNCHANGED <<ds_raw, batch_size, generator, tokenizer_tgt, train_ds_raw,
                   val_ds_raw, ignore_index, epoch_batches, runs_log>>
    /\ UNCHANGED <<envVars, error, caller, trainVars, model_mode, model_fn,
                   valVars, decVars, decode_log, stats, batchVars,
                   grad_enabled>>

\* line 43: tokenizer_tgt = get_or_build_tokenizer(config, ds_raw, lang_tgt)
TokenizerTgt ==
    /\ pc = "tokenizer_tgt"
    /\ LET r == get_or_build_tokenizer(ds_raw, lang_tgt)
       IN  /\ tokenizer_tgt' = r.tokenizer
           /\ tokenizer_files' = [tokenizer_files EXCEPT ![lang_tgt] = r.file]
           /\ tok_log' = Append(tok_log, TokCall(lang_tgt, r))
    /\ pc' = "random_split"
    /\ UNCHANGED <<ds_raw, batch_size, generator, tokenizer_src, train_ds_raw,
                   val_ds_raw, ignore_index, epoch_batches, runs_log>>
    /\ UNCHANGED <<envVars, error, caller, trainVars, model_mode, model_fn,
                   valVars, decVars, decode_log, stats, batchVars,
                   grad_enabled>>

\* lines 46-67: the split; the loaders built on the two parts draw nothing
\* until they are iterated, and a sampler may refuse a part without items
RandomSplit ==
    /\ pc = "random_split"
    /\ LET parts == random_split(Len(ds_raw), generator)
       IN  /\ train_ds_raw' = parts.train
           /\ val_ds_raw' = parts.val
           /\ \/ /\ SamplerRefuses(Len(parts.train))
                       \/ SamplerRefuses(Len(parts.val))
                 /\ error' = "ValueError"
                 /\ pc' = "error"
              \/ /\ pc' = "loss_fn"
                 /\ UNCHANGED error
    /\ generator' = Advance(generator)
    /\ UNCHANGED <<ds_raw, batch_size, tokenizer_files, tokenizer_src,
                   tokenizer_tgt, ignore_index, epoch_batches, tok_log,
                   runs_log>>
    /\ UNCHANGED <<envVars, caller, trainVars, model_mode, model_fn,
                   valVars, decVars, decode_log, stats, batchVars,
                   grad_enabled>>

\* ignoring the PAD id of the vocabulary that encodes the labels
PadIdOfTarget == token_to_id(tokenizer_tgt, "[PAD]")

\* line 165: ignore_index=tokenizer_src.token_to_id('[PAD]')
PadIdIgnored == token_to_id(tokenizer_src, "[PAD]")

\* line 165: loss_fn = nn.CrossEntropyLoss(ignore_index=..., ...)
LossFn ==
    /\ pc = "loss_fn"
    /\ ignore_index' = PadIdIgnored
    /\ pc' = "data_epoch"
    /\ UNCHANGED <<ds_raw, batch_size, tokenizer_files, generator,
                   tokenizer_src, tokenizer_tgt, train_ds_raw, val_ds_raw,
                   epoch_batches, tok_log, runs_log>>
    /\ UNCHANGED <<envVars, error, caller, trainVars, model_mode, model_fn,
                   valVars, decVars, decode_log, stats, batchVars,
                   grad_enabled>>

\* lines 167-170: one epoch's pass over train_dataloader
IterateEpoch ==
    /\ pc = "data_epoch"
    /\ initial_epoch + Len(epoch_batches) < config.num_epochs
    /\ epoch_batches' =
           Append(epoch_batches, Batches(train_ds_raw, batch_size, generator))
    /\ generator' = Advance(generator)
    /\ UNCHANGED <<ds_raw, batch_size, tokenizer_files, tokenizer_src,
                   tokenizer_tgt, train_ds_raw, val_ds_raw, ignore_index,
                   tok_log, runs_log>>
    /\ UNCHANGED <<envVars, pc, error, caller, trainVars, model_mode,
                   model_fn, valVars, decVars, decode_log, stats, batchVars,
                   grad_enabled>>

\* line 167: the range of epochs is exhausted
EndDataRun ==
    /\ pc = "data_epoch"
    /\ initial_epoch + Len(epoch_batches) >= config.num_epochs
    /\ runs_log' = Append(runs_log,
           [ds_raw |-> ds_raw, train |-> train_ds_raw, val |-> val_ds_raw,
            epochs |-> epoch_batches])
    /\ pc' = "data_done"
    /\ UNCHANGED <<ds_raw, batch_size, tokenizer_files, generator,
                   tokenizer_src, tokenizer_tgt, train_ds_raw, val_ds_raw,
                   ignore_index, epoch_batches, tok_log>>
    /\ UNCHANGED <<envVars, error, caller, trainVars, model_mode, model_fn,
                   valVars, decVars, decode_log, stats, batchVars,
                   grad_enabled>>

\* the program is started again with the same configuration on the same
\* tokenizer files, on the same corpus or on a corpus that lost its first
\* pair; a new process has a default generator of its own (the code seeds
\* nothing)
NewProcess ==
    /\ pc \in {"data_done", "error"}
    /\ runs < MaxRuns
    /\ runs' = runs + 1
    /\ error' = "none"
    /\ generator' \in Seeds
    /\ ds_raw' \in {ds_raw} \cup
                   (IF Len(ds_raw) > 1 THEN {Tail(ds_raw)} ELSE {})
    /\ tokenizer_src' = EmptyFn
    /\ tokenizer_tgt' = EmptyFn
    /\ train_ds_raw' = <<>>
    /\ val_ds_raw' = <<>>
    /\ ignore_index' = Unbound
    /\ epoch_batches' = <<>>
    /\ pc' = "get_ds"
    /\ UNCHANGED <<batch_size, tokenizer_files, tok_log, runs_log>>
    /\ UNCHANGED <<store, nbatches, val_ds, config, same_batches, caller,
                   trainVars, model_mode, model_fn, valVars, decVars,
                   decode_log, stats, batchVars, grad_enabled>>

InitData ==
    /\ same_batches = TRUE
    /\ runs = 1
    /\ store = EmptyFn
    /\ nbatches = 0
    /\ val_ds = <<>>
    /\ config \in [num_epochs : 0..MaxEpochs, preload : {NoPreload},
                   seq_len : {1}]
    /\ pc = "get_ds"
    /\ model_mode = "train"
    /\ num_examples = 0
    /\ max_len = 0
    /\ source = NoSource
    /\ FreshLocals
    /\ ds_raw \in SeqsUpTo(Items, MaxItems) \ {<<>>}
    /\ batch_size \in 1..MaxBatchSize
    /\ tokenizer_files \in [{lang_src, lang_tgt} -> FilesAtStart]
    /\ generator \in Seeds
    /\ tokenizer_src = EmptyFn
    /\ tokenizer_tgt = EmptyFn
    /\ train_ds_raw = <<>>
    /\ val_ds_raw = <<>>
    /\ ignore_index = Unbound
    /\ epoch_batches = <<>>
    /\ tok_log = <<>>
    /\ runs_log = <<>>

NextData ==
    \/ TokenizerSrc \/ TokenizerTgt \/ RandomSplit \/ LossFn
    \/ IterateEpoch \/ EndDataRun \/ NewProcess

SpecData == InitData /\ [][NextData]_vars

\* ------------------------------------------------------------ properties
DecodeEnded == pc \in {"returned", "error"}

\* C1 as stated: for every integer max_len the call returns a sequence of
\* length <= max_len.
C1_ReturnsWithinAnyMaxLen ==
    pc = "returned" => Len(decoder_input) <= max_len

\* C1 as amended: for every max_len >= 1 the decoder input never grows beyond
\* max_len, an error arises only from a source of batch size # 1, and the call
\* ends.
C1_TerminatesWithinMaxLen ==
    /\ [](max_len >= 1 =>
            /\ Len(decoder_input) <= max_len
            /\ (pc = "error" => source.size # 1))
    /\ (max_len >= 1 ~> DecodeEnded)

\* a call whose model never yields EOS returned at the length bound
C1_Witness ==
    /\ pc = "returned"
    /\ source.size = 1
    /\ max_len = MaxLen
    /\ Len(decoder_input) = max_len
    /\ \A i \in 1..Len(decoder_input) : decoder_input[i] # eos_idx

\* file that config['preload'] names
PreloadFile == get_weights_file_path(config.preload)

\* train_model is in its epoch loop and about to process the run's first batch
AtFirstBatch ==
    /\ pc = "batch_loop"
    /\ stats.batches = 0
    /\ batch_idx < nbatches

\* C2: with a preload label configured, the first batch is processed with the
\* model parameters stored in the preloaded checkpoint.
C2_FirstBatchUsesStoredParams ==
    (AtFirstBatch /\ config.preload # NoPreload) =>
        model_params = store[PreloadFile].model_state_dict

\* C3: the step that enters the first epoch of a run enters epoch
\* stored_epoch + 1 with the stored global_step when a preload label is
\* configured, and epoch 0 with global_step 0 otherwise; start-up leaves
\* initial_epoch and global_step at these values.
C3_StartCounters ==
    [][LET first == IF config.preload = NoPreload THEN 0
                    ELSE store[PreloadFile].epoch + 1
           step == IF config.preload = NoPreload THEN 0
                   ELSE store[PreloadFile].global_step
       IN  /\ (pc = "train_start" /\ pc' = "epoch_loop") =>
                  (initial_epoch' = first /\ global_step' = step)
           /\ (pc = "epoch_loop" /\ epoch = Unbound /\ epoch' # Unbound) =>
                  (epoch' = first /\ global_step' = step)]_vars

\* a resumed run has entered its first epoch with a restored step counter
C3_Witness ==
    /\ config.preload # NoPreload
    /\ AtFirstBatch
    /\ epoch = initial_epoch
    /\ epoch > 0
    /\ global_step > 0

\* C4: a decoder call on a source of batch size # 1 ends in an error before
\* any encode, decode or project call.
C4_RejectsBatchBeforeCompute ==
    (source.size # 1 /\ stats.decodes > 0) =>
        (pc = "error" /\ calls = NoCalls)

\* the run has ended after a start-up that found its checkpoint (or needed none)
RunEnded == pc \in {"done", "error"} /\ error # "FileNotFoundError"

\* C5: every training run validates once and then writes the checkpoint once:
\* validation starts only when the epoch range is exhausted, the checkpoint
\* is written only after validation, and a run that has ended has done both.
C5_ValidateOnceThenSaveOnce ==
    /\ RunEnded => (stats.val_runs = 1 /\ stats.ckpt_writes = 1)
    /\ stats.val_runs > 0 => ~(NextOfRange < config.num_epochs)
    /\ stats.ckpt_writes > 0 => (pc = "done" /\ stats.val_runs = 1)

CheckpointFields ==
    {"epoch", "model_state_dict", "optimizer_state_dict", "global_step"}

RECURSIVE ValueOf(_)
\* number that a sequence of decimal digits renders
ValueOf(digits) ==
    IF digits = <<>> THEN 0
    ELSE 10 * ValueOf(SubSeq(digits, 1, Len(digits) - 1)) + digits[Len(digits)]

\* the file of the label holds exactly the four fields, with the run's last
\* epoch and its global_step
FinalCheckpointAt(label) ==
    LET file == get_weights_file_path(label)
    IN  /\ file \in DOMAIN store
        /\ DOMAIN store[file] = CheckpointFields
        /\ store[file].epoch = config.num_epochs - 1
        /\ store[file].epoch = epoch
        /\ store[file].global_step = global_step

\* C6 as stated: when train_model has written its final checkpoint, the file
\* labelled with num_epochs - 1 in two digits holds that epoch, the current
\* global_step, and exactly the four fields.
C6_FinalCheckpoint ==
    pc = "done" =>
        LET label == Format02d(config.num_epochs - 1)
        IN  /\ Len(label) = 2
            /\ FinalCheckpointAt(label)

\* C6: when train_model has written its final checkpoint, the file labelled
\* with num_epochs - 1 in decimal, zero-padded to two digits and longer
\* from epoch 100 on, holds that epoch, the current global_step, and exactly
\* the four fields.
C6_FinalCheckpointPadded ==
    pc = "done" =>
        LET label == Format02d(config.num_epochs - 1)
        IN  /\ ValueOf(label) = config.num_epochs - 1
            /\ Len(label) >= 2
            /\ Len(label) = 2 <=> config.num_epochs - 1 < 100
            /\ Len(label) > 2 => label[1] # 0
            /\ FinalCheckpointAt(label)

\* a run has saved a checkpoint whose label takes three digits
C6_Witness ==
    /\ pc = "done"
    /\ config.num_epochs - 1 >= 100
    /\ stats.batches > 0
    /\ Len(Format02d(epoch)) = 3
    /\ get_weights_file_path(Format02d(epoch)) \in DOMAIN store

\* C7: start-up with a preload label whose file is missing ends the run in an
\* error with no batch, no validation, no checkpoint write and global_step
\* still 0; nothing follows but a new start of the program.
C7_MissingPreloadFails ==
    [][/\ (pc = "train_start" /\ config.preload # NoPreload
             /\ PreloadFile \notin DOMAIN store) =>
              /\ pc' = "error"
              /\ error' = "FileNotFoundError"
              /\ stats' = NoStats
              /\ global_step' = 0
              /\ store' = store
       /\ (pc = "error" /\ error = "FileNotFoundError") =>
              pc' = "train_model"]_vars

\* a run failed at start-up although other checkpoints exist
C7_Witness ==
    /\ pc = "error"
    /\ error = "FileNotFoundError"
    /\ DOMAIN store # {}

\* the run preloaded a checkpoint and has not written its own yet
Resumed ==
    /\ config.preload # NoPreload
    /\ pc \notin {"train_model", "train_start", "done", "error"}

\* C8: a resumed run reads back the saved epoch, optimizer state and
\* global_step, and a finished run, resumed or not, ends at epoch
\* num_epochs - 1 with global_step = num_epochs * batches per epoch, as an
\* uninterrupted run does.
C8_ResumeRoundTrip ==
    /\ Resumed =>
          /\ initial_epoch = store[PreloadFile].epoch + 1
          /\ stats.batches = 0 =>
                /\ opt_state = store[PreloadFile].optimizer_state_dict
                /\ global_step = store[PreloadFile].global_step
    /\ pc = "done" =>
          /\ epoch = config.num_epochs - 1
          /\ same_batches => global_step = config.num_epochs * nbatches

\* a run resumed from an earlier checkpoint has finished its remaining epochs
C8_Witness ==
    /\ pc = "done"
    /\ config.preload # NoPreload
    /\ initial_epoch > 0
    /\ config.num_epochs > initial_epoch
    /\ global_step > store[PreloadFile].global_step
    /\ same_batches

\* C9: two decoder calls on the same model, the same source and the same
\* max_len return the same token ids.
C9_Deterministic ==
    \A i, j \in 1..Len(decode_log) :
        (decode_log[i].src = decode_log[j].src
         /\ decode_log[i].max_len = decode_log[j].max_len) =>
            decode_log[i].out = decode_log[j].out

\* two calls on the same source have returned generated tokens
C9_Witness ==
    /\ Len(decode_log) >= 2
    /\ decode_log[1].src = decode_log[2].src
    /\ Len(decode_log[2].out) = MaxLen

\* C10: a run_validation call that returns has invoked the decoder on
\* min(num_examples, number of validation examples) examples.
C10_BoundedSample ==
    pc = "returned" => stats.decodes = Min(num_examples, Len(val_ds))

\* global_step a run starts from
StartStep ==
    IF config.preload = NoPreload THEN 0 ELSE store[PreloadFile].global_step

\* the run got past its start-up: get_ds returned its loaders and the
\* preload, if any, was read
RunStarted ==
    /\ pc \notin {"train_model", "train_start"}
    /\ val_ds # <<>>
    /\ error # "FileNotFoundError"

\* C11: within a run global_step never decreases, after start-up it changes
\* only in the step that processes a batch, by exactly 1, and it always equals
\* its starting value plus the number of batches processed so far.
C11_StepCountsBatches ==
    [][/\ pc' # "train_model" =>
            /\ global_step' >= global_step
            /\ stats'.batches - stats.batches \in {0, 1}
            /\ pc # "train_start" =>
                  global_step' - global_step = stats'.batches - stats.batches
       /\ RunStarted' => global_step' = StartStep' + stats'.batches]_vars

\* a resumed run has finished after processing several batches
C11_Witness ==
    /\ pc = "done"
    /\ config.preload # NoPreload
    /\ stats.batches >= 2
    /\ StartStep > 0

\* C12: an epoch whose loader yields no batch only ends: no loss, no metric,
\* no optimizer step, global_step unchanged, no error; the run goes on to the
\* next epoch, or to validation and the final checkpoint, and a run whose
\* epochs are all without batches keeps the global_step it started from.
C12_EmptyEpochIsNoOp ==
    [][/\ (pc = "batch_loop" /\ nbatches = 0) =>
            /\ pc' = "epoch_loop"
            /\ error' = "none"
            /\ UNCHANGED <<global_step, opt_state, model_params, metrics,
                           last_batch, stats>>
       /\ (nbatches = 0 /\ epoch' # Unbound) =>
            /\ error' = "none"
            /\ metrics' = <<>>
            /\ last_batch' = NoBatch
            /\ global_step' = StartStep'
       /\ (nbatches = 0 /\ epoch # Unbound /\ pc = "epoch_loop") =>
            pc' \in {"batch_loop", "val_entry"}]_vars

\* a run over several epochs without batches has validated and saved
C12_Witness ==
    /\ pc = "done"
    /\ nbatches = 0
    /\ config.num_epochs = MaxEpochs
    /\ stats.val_runs = 1
    /\ stats.ckpt_writes = 1
    /\ global_step = 0

\* position of the operation in the batch
Pos(ops, op) == CHOOSE i \in 1..Len(ops) : ops[i] = op

Times(ops, op) == Cardinality({i \in 1..Len(ops) : ops[i] = op})

\* C17: a batch runs forward, loss, backward, one optimizer step, gradient
\* clearing, the increment of global_step and then the emission of its one
\* loss, keyed by global_step after the increment.
C17_LossKeyedAfterIncrement ==
    stats.batches > 0 =>
        LET ops == last_batch.ops IN
        /\ Pos(ops, "forward") < Pos(ops, "loss")
        /\ Pos(ops, "loss") < Pos(ops, "backward")
        /\ Pos(ops, "backward") < Pos(ops, "optimizer_step")
        /\ Pos(ops, "optimizer_step") < Pos(ops, "zero_grad")
        /\ Pos(ops, "zero_grad") < Pos(ops, "global_step")
        /\ Pos(ops, "global_step") < Pos(ops, "add_scalar")
        /\ Times(ops, "optimizer_step") = 1
        /\ Times(ops, "add_scalar") = 1
        /\ Len(metrics) = stats.batches
        /\ metrics[Len(metrics)] = global_step

InDecoder == pc \in {"decode_entry", "decode_loop", "decode_return"}

\* C19: the forward pass of every training batch runs in training mode, and
\* every decoder call of run_validation runs in evaluation mode with gradient
\* tracking disabled.
C19_ModeInvariant ==
    /\ stats.batches > 0 => last_batch.fwd_mode = "train"
    /\ (InDecoder /\ caller # <<>>) =>
          (model_mode = "eval" /\ ~grad_enabled)

\* the decoder runs in the validation of a run that trained
C19_Witness ==
    /\ pc = "decode_loop"
    /\ caller = <<"run_validation", "train_model">>
    /\ stats.batches > 0
    /\ Len(decoder_input) >= 2

\* C20: a run whose start-up succeeded (get_ds built its loaders, the
\* preload file was there) raises no error.
C20_RunsReachDone == error \in {"none", "FileNotFoundError", "ValueError"}

\* ------------------------------------------------------------ C13
\* C13: two runs of the same configuration on the same corpus split the
\* corpus alike and process the same batches in the same order in every
\* epoch.
C13_SameBatchOrder ==
    \A i, j \in 1..Len(runs_log) :
        runs_log[i].ds_raw = runs_log[j].ds_raw =>
            /\ runs_log[i].train = runs_log[j].train
            /\ runs_log[i].val = runs_log[j].val
            /\ runs_log[i].epochs = runs_log[j].epochs

\* ------------------------------------------------------------ C14
\* C14: a call trains from the corpus only when it finds no file, and then
\* it saves the file; after a call that built the vocabulary of a language,
\* no later call for that language trains, and each returns the vocabulary
\* that call built.
C14_BuiltOnceThenReused ==
    /\ \A j \in 1..Len(tok_log) :
          /\ tok_log[j].trained => ~tok_log[j].found /\ tok_log[j].saved
          /\ ~tok_log[j].trained => tok_log[j].found /\ ~tok_log[j].saved
    /\ \A i, j \in 1..Len(tok_log) :
          (i < j /\ tok_log[i].lang = tok_log[j].lang /\ tok_log[i].trained)
              => /\ ~tok_log[j].trained
                 /\ tok_log[j].vocab = tok_log[i].vocab
    /\ \A lang \in DOMAIN tokenizer_files :
          \A j \in 1..Len(tok_log) :
              tok_log[j].lang = lang =>
                  /\ tokenizer_files[lang].exists
                  /\ from_file(tokenizer_files[lang]) = tok_log[j].vocab

\* a second run on a corpus that now would train another vocabulary got the
\* vocabulary the first run built, a word of the first corpus included
C14_Witness ==
    /\ Len(tok_log) >= 3
    /\ tok_log[1].trained
    /\ tok_log[3].lang = tok_log[1].lang
    /\ tok_log[3].vocab = tok_log[1].vocab
    /\ DOMAIN tok_log[3].vocab
          # DOMAIN train_from_iterator(get_all_sentences(ds_raw, tok_log[3].lang))

\* ------------------------------------------------------------ C18
\* C18: the label id the loss ignores is the PAD id of the target
\* vocabulary, whatever the two vocabularies are.
C18_IgnoresTargetPad ==
    ignore_index # Unbound => ignore_index = PadIdOfTarget

\* ------------------------------------------------------------ C15
\* the call left its loop: the value of line 101 is decoder_input
DecodeLeftLoop == pc \in {"decode_return", "returned"}

\* C15: the result starts with the target vocabulary's SOS id; EOS occurs
\* among the generated tokens only as the last element, and then the loop was
\* left by the break of line 100; a result that left the loop at the length
\* bound has exactly max_len elements and does not end with an appended EOS.
C15_ResultShape ==
    DecodeLeftLoop =>
        LET out == decoder_input
            n == Len(out)
        IN  /\ n >= 1
            /\ out[1] = sos_idx
            /\ \A i \in 2..n : out[i] = eos_idx => i = n /\ calls.stop = "eos"
            /\ calls.stop = "eos" => n >= 2 /\ out[n] = eos_idx
            /\ calls.stop = "length" =>
                  /\ n = max_len
                  /\ n >= 2 => out[n] # eos_idx
            /\ calls.stop \in {"eos", "length"}

\* both endings happened at the same length: one call returned on an EOS
\* appended as the last allowed token
C15_Witness ==
    /\ pc = "returned"
    /\ max_len = MaxLen
    /\ Len(decoder_input) = MaxLen
    /\ calls.stop = "eos"
    /\ decoder_input[MaxLen] = eos_idx

\* ------------------------------------------------------------ C16
\* C16: in a call on a single-example source, encode has been invoked exactly
\* once from the entry on (so before every decode step), and decode and
\* project have each been invoked once per generated token, Len - 1 times, the
\* k-th with a causal mask of size k, the length of the sequence at that step.
C16_CallsPerToken ==
    (pc \in {"decode_loop", "decode_return", "returned"} /\ source.size = 1) =>
        LET n == Len(decoder_input)
        IN  /\ calls.encode = 1
            /\ calls.decode = n - 1
            /\ calls.project = n - 1
            /\ calls.masks = [k \in 1..(n - 1) |-> k]

\* a call returned after generating at least two tokens
C16_Witness ==
    /\ pc = "returned"
    /\ source.size = 1
    /\ Len(decoder_input) >= 3
    /\ calls.decode = 2

====
